---- MODULE Spec2Model ----
(***************************************************************************)
(* A model of SQLtoMy.py, the SQLite to MySQL dump converter.              *)
(*                                                                         *)
(* The two pure functions, topological_sort_tables and                     *)
(* sqlite_to_mysql_type, are operators computed as the code computes them. *)
(* create_sql_dump is a state machine over the position pc in its body;    *)
(* the SQLite database, the options and the environment are inputs fixed   *)
(* by Init, the output file is the sequence out of the statements written. *)
(***************************************************************************)
EXTENDS Integers, Sequences, FiniteSets, TLC

VARIABLES
    db,                 \* the source database: catalog, pragmas, rows
    opt,                \* the options of create_sql_dump
    env,                \* what the environment does: failures of probes and blob writes
    pc,                 \* position in create_sql_dump
    status,             \* exit status: -1 while running
    ctrl_c_pressed,     \* the global flag of line 15
    conn_open,          \* the sqlite3 connection is open
    f_open,             \* the output file is open
    table_dependencies, \* line 157
    sorted_tables,      \* line 162
    sorted_items,       \* line 163
    warnings,           \* cyclic-dependency warnings logged
    out,                \* what was written to the output file, in order
    idx,                \* position of the item loop of line 184 (1-based)
    columns_info,       \* line 214
    column_metadata,    \* line 217
    total_rows,         \* line 336
    offset,             \* line 345
    values_list,        \* line 347
    row_count,          \* line 355
    flush_i,            \* the i of the flush loop of line 406
    fetches,            \* the LIMIT/OFFSET queries executed, in order
    blob_files,         \* the files of the blob directory: path -> bytes
    call,               \* a call of a pure function: its arguments
    ret                 \* and its result

vars == <<db, opt, env, pc, status, ctrl_c_pressed, conn_open, f_open,
          table_dependencies, sorted_tables, sorted_items, warnings, out, idx,
          columns_info, column_metadata, total_rows, offset, values_list,
          row_count, flush_i, fetches, blob_files, call, ret>>

runVars == <<pc, status, ctrl_c_pressed, conn_open, f_open,
             table_dependencies, sorted_tables, sorted_items, warnings, out, idx,
             columns_info, column_metadata, total_rows, offset, values_list,
             row_count, flush_i, fetches, blob_files>>

(***************************************************************************)
(* Sequences                                                               *)
(***************************************************************************)
Range(s) == {s[i] : i \in 1..Len(s)}

SeqsUpTo(S, n) == UNION {[1..k -> S] : k \in 0..n}

Min(a, b) == IF a <= b THEN a ELSE b

\* The operators over the rows of a table or of the output recur on the two
\* halves of a range lo..hi, left half first: the order is that of a loop over
\* the range, and the depth of the recursion stays small.

\* [s[i] for i in lo..hi if s[i] in keep]
RECURSIVE FilterRange(_, _, _, _)
FilterRange(s, keep, lo, hi) ==
    IF lo > hi THEN <<>>
    ELSE IF lo = hi THEN (IF s[lo] \in keep THEN <<s[lo]>> ELSE <<>>)
    ELSE LET mid == (lo + hi) \div 2
         IN  FilterRange(s, keep, lo, mid) \o FilterRange(s, keep, mid + 1, hi)

\* [x for x in s if x in keep]
Filter(s, keep) == FilterRange(s, keep, 1, Len(s))

\* list.index(x): the first position of x in s, 0-based
RECURSIVE IndexOf(_, _)
IndexOf(s, x) == IF Head(s) = x THEN 0 ELSE 1 + IndexOf(Tail(s), x)

RECURSIVE SumRange(_, _, _)
SumRange(s, lo, hi) ==
    IF lo > hi THEN 0
    ELSE IF lo = hi THEN s[lo]
    ELSE LET mid == (lo + hi) \div 2
         IN  SumRange(s, lo, mid) + SumRange(s, mid + 1, hi)

SumSeq(s) == SumRange(s, 1, Len(s))

(***************************************************************************)
(* topological_sort_tables (lines 54-84)                                   *)
(*                                                                         *)
(* tables is the list of table names, foreign_keys maps each table to the  *)
(* list of the tables its foreign keys reference (fk[2] of each row of     *)
(* PRAGMA foreign_key_list): the other columns of a row are not read here. *)
(***************************************************************************)

\* The (table, ref_table) pairs in the order the loops of lines 61-62 visit them.
RECURSIVE FkEdges(_, _)
FkEdges(tables, foreign_keys) ==
    IF tables = <<>> THEN <<>>
    ELSE LET table == Head(tables)
             fk_info == foreign_keys[table]
         IN  [i \in 1..Len(fk_info) |-> <<table, fk_info[i]>>]
                 \o FkEdges(Tail(tables), foreign_keys)

\* Every name the sort may see: graph and in_degree are defaultdicts.
SortNames(tables, foreign_keys) ==
    Range(tables) \cup UNION {Range(foreign_keys[t]) : t \in Range(tables)}

\* lines 63-64: graph[ref_table].append(table), edge by edge
RECURSIVE BuildGraph(_, _)
BuildGraph(edges, graph) ==
    IF edges = <<>> THEN graph
    ELSE LET table == Head(edges)[1]
             ref_table == Head(edges)[2]
         IN  BuildGraph(Tail(edges),
                        [graph EXCEPT ![ref_table] = Append(@, table)])

\* lines 58-59 and 65: in_degree[table] = 0, then += 1 per foreign key
RECURSIVE BuildInDegree(_, _)
BuildInDegree(edges, in_degree) ==
    IF edges = <<>> THEN in_degree
    ELSE BuildInDegree(Tail(edges), [in_degree EXCEPT ![Head(edges)[1]] = @ + 1])

\* line 67: deque([t for t in tables if in_degree[t] == 0])
SeedQueue(tables, in_degree) ==
    Filter(tables, {t \in Range(tables) : in_degree[t] = 0})

\* lines 75-78: for neighbor in graph[table]: decrement, enqueue at zero
RECURSIVE Relax(_, _, _)
Relax(neighbors, in_degree, queue) ==
    IF neighbors = <<>> THEN [in_degree |-> in_degree, queue |-> queue]
    ELSE LET neighbor == Head(neighbors)
             d == [in_degree EXCEPT ![neighbor] = @ - 1]
         IN  Relax(Tail(neighbors), d,
                   IF d[neighbor] = 0 THEN Append(queue, neighbor) ELSE queue)

\* lines 71-78: the while loop over the queue
RECURSIVE KahnLoop(_, _, _, _)
KahnLoop(queue, sorted, in_degree, graph) ==
    IF queue = <<>> THEN sorted
    ELSE LET table == Head(queue)
             r == Relax(graph[table], in_degree, Tail(queue))
         IN  KahnLoop(r.queue, Append(sorted, table), r.in_degree, graph)

\* line 82, with every table appended again: a mutant of CycleFallback
CycleFallbackAll(tables, sorted) == sorted \o tables

\* line 82: sorted_tables.extend([t for t in tables if t not in sorted_tables])
CycleFallback(tables, sorted) ==
    sorted \o Filter(tables, Range(tables) \ Range(sorted))

\* lines 54-84: the list returned, and the number of warnings logged
topological_sort_tables(tables, foreign_keys) ==
    LET names == SortNames(tables, foreign_keys)
        edges == FkEdges(tables, foreign_keys)
        graph == BuildGraph(edges, [n \in names |-> <<>>])
        in_degree == BuildInDegree(edges, [n \in names |-> 0])
        sorted == KahnLoop(SeedQueue(tables, in_degree), <<>>, in_degree, graph)
    IN  IF Len(sorted) # Len(tables)
        THEN [sorted_tables |-> CycleFallback(tables, sorted), warnings |-> 1]
        ELSE [sorted_tables |-> sorted, warnings |-> 0]

(***************************************************************************)
(* Integers and optional values                                            *)
(*                                                                         *)
(* Python integers are unbounded and SQLite's are 64-bit. An integer of    *)
(* the database is written here as three limbs <<a, b, c>> standing for    *)
(* a * 2^48 + b * 2^24 + c with 0 <= b, c < 2^24; limbs compare            *)
(* lexicographically, as the integers they stand for do.                   *)
(* An optional value is <<>> for None.                                     *)
(***************************************************************************)
Limb == 4096 * 4096

None == <<>>

Some(n) == <<n>>

WideLe(x, y) ==
    \/ x[1] < y[1]
    \/ x[1] = y[1] /\ x[2] < y[2]
    \/ x[1] = y[1] /\ x[2] = y[2] /\ x[3] <= y[3]

\* a small natural number as limbs
Wide(n) == <<0, 0, n>>

WideZero == <<0, 0, 0>>

\* -2147483648 and 2147483647 (line 112)
INT32_MIN == <<-1, Limb - 128, 0>>
INT32_MAX == <<0, 127, Limb - 1>>

\* -9223372036854775808 and 9223372036854775807 (line 114)
INT64_MIN == <<-32768, 0, 0>>
INT64_MAX == <<32767, Limb - 1, Limb - 1>>

(***************************************************************************)
(* sqlite_to_mysql_type (lines 86-120)                                     *)
(*                                                                         *)
(* The clause returned is a string; here it is the record of its parts:    *)
(* base (the type name), width (of VARCHAR(width), else None), auto        *)
(* (" AUTO_INCREMENT" was appended) and nullability (the suffix).          *)
(***************************************************************************)
VARCHAR_MAX == 255

TEXT_MAX == 65535

\* str.upper() on the type names the model uses
Upper(t) ==
    CASE t = "integer" -> "INTEGER"
      [] t = "text" -> "TEXT"
      [] t = "blob" -> "BLOB"
      [] OTHER -> t

\* lines 87-98 and 101: mapping.get(sqlite_type, sqlite_type)
TypeMapping(sqlite_type, is_primary) ==
    CASE sqlite_type = "TEXT" -> "TEXT"
      [] sqlite_type = "INTEGER" -> (IF is_primary THEN "BIGINT" ELSE "INT")
      [] sqlite_type = "REAL" -> "DOUBLE"
      [] sqlite_type = "BLOB" -> "LONGBLOB"
      [] sqlite_type = "NULL" -> "NULL"
      [] sqlite_type = "DATETIME" -> "DATETIME"
      [] sqlite_type = "DATE" -> "DATE"
      [] sqlite_type = "BOOLEAN" -> "BOOLEAN"
      [] sqlite_type = "NUMERIC" -> "DECIMAL(10,2)"
      [] sqlite_type = "DECIMAL" -> "DECIMAL(10,2)"
      [] OTHER -> sqlite_type

\* lines 104-109 with >= for >: a mutant of TextType
TextTypeOffByOne(base_type, max_length) ==
    IF max_length >= TEXT_MAX THEN [base |-> "LONGTEXT", width |-> None]
    ELSE IF max_length >= VARCHAR_MAX THEN [base |-> "TEXT", width |-> None]
    ELSE [base |-> "VARCHAR", width |-> Some(Min(max_length, VARCHAR_MAX))]

\* lines 104-109
TextType(base_type, max_length) ==
    IF max_length > TEXT_MAX THEN [base |-> "LONGTEXT", width |-> None]
    ELSE IF max_length > VARCHAR_MAX THEN [base |-> "TEXT", width |-> None]
    ELSE [base |-> "VARCHAR", width |-> Some(Min(max_length, VARCHAR_MAX))]

\* lines 112-115: base_type is kept when max_value is in neither range
IntegerType(base_type, max_value) ==
    IF WideLe(INT32_MIN, max_value) /\ WideLe(max_value, INT32_MAX)
    THEN [base |-> "INT", width |-> None]
    ELSE IF WideLe(INT64_MIN, max_value) /\ WideLe(max_value, INT64_MAX)
    THEN [base |-> "BIGINT", width |-> None]
    ELSE base_type

sqlite_to_mysql_type(sqlite_type0, max_length, nullable, max_value, is_primary) ==
    LET sqlite_type == Upper(sqlite_type0)
        base0 == [base |-> TypeMapping(sqlite_type, is_primary), width |-> None]
        base_type ==
            IF sqlite_type = "TEXT" /\ max_length # None
            THEN TextType(base0, max_length[1])
            ELSE IF sqlite_type = "INTEGER" /\ max_value # None
            THEN IntegerType(base0, max_value)
            ELSE base0
    IN  [base |-> base_type.base,
         width |-> base_type.width,
         auto |-> (is_primary /\ sqlite_type = "INTEGER"),
         nullability |-> IF nullable THEN "DEFAULT NULL" ELSE "NOT NULL"]

(***************************************************************************)
(* The source database and the values of its rows                          *)
(*                                                                         *)
(* db.items is sqlite_master in catalog order: records [name, sql], sql    *)
(* being the lower-cased words the statement starts with. db.fk_list[t]    *)
(* is the list of the tables referenced by the rows of PRAGMA              *)
(* foreign_key_list(t), db.table_info[t] the columns [name, type, notnull, *)
(* pk], db.index_list[t] the indexes and db.rows[t] the rows in the order  *)
(* SELECT * returns them.                                                  *)
(* A value is [kind |-> "null"], [kind |-> "int", v |-> limbs],            *)
(* [kind |-> "str", s |-> characters] or [kind |-> "bytes", b |-> bytes];  *)
(* a character is "a" (printable), "'" (the quote) or "0" (not printable). *)
(***************************************************************************)
NullValue == [kind |-> "null"]

IntValue(n) == [kind |-> "int", v |-> Wide(n)]

StrValue(s) == [kind |-> "str", s |-> s]

BytesValue(b) == [kind |-> "bytes", b |-> b]

\* line 51: sanitize_sql_value keeps the printable characters
sanitize_sql_value(s) == Filter(s, {"a", "'"})

\* str.replace("'", "''")
RECURSIVE DoubleQuotes(_)
DoubleQuotes(s) ==
    IF s = <<>> THEN <<>>
    ELSE (IF Head(s) = "'" THEN <<"'", "'">> ELSE <<Head(s)>>) \o DoubleQuotes(Tail(s))

\* bytes.hex(): two hexadecimal digits per byte
RECURSIVE Hex(_)
Hex(b) ==
    IF b = <<>> THEN <<>>
    ELSE <<Head(b) \div 16, Head(b) % 16>> \o Hex(Tail(b))

\* lines 367-368: the file of an externalized blob. row_index, the position of the
\* row in its page, is not read: the name is built from the page's offset.
BlobPath(item_name, col_name, page_offset, i, row_index) ==
    <<item_name, col_name, page_offset, i>>

\* lines 363-400: one value of a row. ctx holds item_name, offset, row_index, the
\* options and the environment; files is the blob directory. Returns the literal
\* appended to values and the blob directory after it.
EncodeValue(col_value, col, i, ctx, files) ==
    IF col_value.kind = "null"
    THEN [literal |-> [lit |-> "NULL"], files |-> files]
    ELSE IF col.type = "BLOB" /\ col_value.kind = "bytes"
    THEN IF ctx.blob_dir /\ Len(col_value.b) > ctx.max_blob_size
         THEN LET blob_path == BlobPath(ctx.item_name, col.name, ctx.offset, i,
                                        ctx.row_index)
              IN  IF ctx.blob_ok
                  THEN [literal |-> [lit |-> "LOAD_FILE", path |-> blob_path],
                        files |-> [p \in DOMAIN files \cup {blob_path} |->
                                     IF p = blob_path THEN col_value.b ELSE files[p]]]
                  ELSE [literal |-> [lit |-> "NULL"], files |-> files]
         ELSE IF Len(col_value.b) > ctx.max_blob_size
         THEN [literal |-> [lit |-> "NULL"], files |-> files]
         ELSE [literal |-> [lit |-> "UNHEX", hex |-> Hex(col_value.b)], files |-> files]
    ELSE IF col_value.kind = "str"
    THEN [literal |-> [lit |-> "STR", s |-> DoubleQuotes(sanitize_sql_value(col_value.s))],
          files |-> files]
    ELSE IF col_value.kind = "int"
    THEN [literal |-> [lit |-> "NUM", v |-> col_value.v], files |-> files]
    ELSE [literal |-> [lit |-> "STR", s |-> DoubleQuotes(sanitize_sql_value(<<"a">>))],
          files |-> files]

\* lines 357-400: the values of one row, column i (0-based) onwards
RECURSIVE EncodeRow(_, _, _, _, _)
EncodeRow(row, cols, i, ctx, files) ==
    IF i >= Len(row) THEN [values |-> <<>>, files |-> files]
    ELSE LET e == EncodeValue(row[i + 1], cols[i + 1], i, ctx, files)
             rest == EncodeRow(row, cols, i + 1, ctx, e.files)
         IN  [values |-> <<e.literal>> \o rest.values, files |-> rest.files]

\* lines 356-403: the rows lo..hi (1-based) of one page, in order
RECURSIVE EncodeRows(_, _, _, _, _, _)
EncodeRows(page, cols, lo, hi, ctx, files) ==
    IF lo > hi THEN [values_list |-> <<>>, files |-> files]
    ELSE IF lo = hi
    THEN LET r == EncodeRow(page[lo], cols, 0, [ctx EXCEPT !.row_index = lo - 1], files)
         IN  [values_list |-> <<r.values>>, files |-> r.files]
    ELSE LET mid == (lo + hi) \div 2
             left == EncodeRows(page, cols, lo, mid, ctx, files)
             right == EncodeRows(page, cols, mid + 1, hi, ctx, left.files)
         IN  [values_list |-> left.values_list \o right.values_list, files |-> right.files]

EncodePage(page, cols, ctx, files) == EncodeRows(page, cols, 1, Len(page), ctx, files)

\* line 354 fetching one row more than the page: a mutant of SelectPage
SelectPageOneMore(rows, batch_size, offset_) ==
    SubSeq(rows, offset_ + 1, Min(offset_ + batch_size + 1, Len(rows)))

\* line 354: SELECT * ... LIMIT batch_size OFFSET offset (a negative LIMIT is no limit)
SelectPage(rows, batch_size, offset_) ==
    IF batch_size < 0 THEN SubSeq(rows, offset_ + 1, Len(rows))
    ELSE SubSeq(rows, offset_ + 1, Min(offset_ + batch_size, Len(rows)))

FLUSH_CHUNK == 100

\* line 407 slicing one row short, values_list[i:i+99]: a mutant of Chunk
ChunkOneShort(list, i) == SubSeq(list, i + 1, Min(i + FLUSH_CHUNK - 1, Len(list)))

\* line 407: values_list[i:i+100]
Chunk(list, i) == SubSeq(list, i + 1, Min(i + FLUSH_CHUNK, Len(list)))

\* line 406 flushing the whole list at once: a mutant of NextChunkStart
NextChunkStartAtEnd(list, i) == Len(list)

\* line 406: the next i of range(0, len(values_list), 100)
NextChunkStart(list, i) == i + FLUSH_CHUNK

(***************************************************************************)
(* create_sql_dump (lines 122-431): introspection                          *)
(***************************************************************************)
IsTableSql(sql) == sql = "create table"

\* line 156: the tables handed to the sort
RECURSIVE CatalogTables(_)
CatalogTables(items) ==
    IF items = <<>> THEN <<>>
    ELSE (IF Head(items).name # "sqlite_sequence" /\ IsTableSql(Head(items).sql)
          THEN <<Head(items).name>> ELSE <<>>) \o CatalogTables(Tail(items))

\* lines 164-170: every item but sqlite_sequence, with its rank
RECURSIVE RankItems(_, _)
RankItems(items, sorted) ==
    IF items = <<>> THEN <<>>
    ELSE LET it == Head(items)
             rank == IF IsTableSql(it.sql) /\ it.name \in Range(sorted)
                     THEN IndexOf(sorted, it.name)
                     ELSE Len(sorted)
         IN  (IF it.name = "sqlite_sequence" THEN <<>>
              ELSE <<[name |-> it.name, sql |-> it.sql, rank |-> rank]>>)
                 \o RankItems(Tail(items), sorted)

\* x placed after the items of s whose rank is not larger
RECURSIVE InsertByRank(_, _)
InsertByRank(s, x) ==
    IF s = <<>> THEN <<x>>
    ELSE IF Head(s).rank <= x.rank THEN <<Head(s)>> \o InsertByRank(Tail(s), x)
    ELSE <<x>> \o s

\* line 171 without the sort: a mutant of SortByRank
KeepCatalogOrder(items, acc) == acc \o items

\* line 171: sorted_items.sort(key=lambda x: x[2]), a stable sort
RECURSIVE SortByRank(_, _)
SortByRank(items, acc) ==
    IF items = <<>> THEN acc
    ELSE SortByRank(Tail(items), InsertByRank(acc, Head(items)))

(***************************************************************************)
(* create_sql_dump: the structure of a table (lines 213-332)               *)
(***************************************************************************)
\* line 220
ColType(col) == IF col.type = "" THEN "TEXT" ELSE Upper(col.type)

WideMax(x, y) == IF WideLe(x, y) THEN y ELSE x

\* MAX of two optional lengths
OptMax(x, y) ==
    IF x = None THEN y ELSE IF y = None THEN x
    ELSE IF x[1] >= y[1] THEN x ELSE y

\* MAX of two optional integers
OptWideMax(x, y) ==
    IF x = None THEN y ELSE IF y = None THEN x ELSE WideMax(x, y)

\* line 236: SELECT MAX(LENGTH(col)) over rows lo..hi, None when no row has a value
RECURSIVE MaxLengthRange(_, _, _, _)
MaxLengthRange(rows, i, lo, hi) ==
    IF lo > hi THEN None
    ELSE IF lo = hi
    THEN (IF rows[lo][i].kind = "str" THEN Some(Len(rows[lo][i].s)) ELSE None)
    ELSE LET mid == (lo + hi) \div 2
         IN  OptMax(MaxLengthRange(rows, i, lo, mid), MaxLengthRange(rows, i, mid + 1, hi))

MaxLength(rows, i) == MaxLengthRange(rows, i, 1, Len(rows))

\* line 240: SELECT MAX(col) over rows lo..hi, None when no row has a value
RECURSIVE MaxValueRange(_, _, _, _)
MaxValueRange(rows, i, lo, hi) ==
    IF lo > hi THEN None
    ELSE IF lo = hi
    THEN (IF rows[lo][i].kind = "int" THEN rows[lo][i].v ELSE None)
    ELSE LET mid == (lo + hi) \div 2
         IN  OptWideMax(MaxValueRange(rows, i, lo, mid), MaxValueRange(rows, i, mid + 1, hi))

MaxValue(rows, i) == MaxValueRange(rows, i, 1, Len(rows))

\* lines 218-246: the metadata of column i (1-based) of a table
ColumnMetadata(col, rows, i, probe_fails) ==
    LET col_type == ColType(col)
        len == MaxLength(rows, i)
        val == MaxValue(rows, i)
    IN  [name |-> col.name,
         type |-> col_type,
         nullable |-> ~col.notnull,
         is_primary |-> col.pk > 0,
         max_length |-> IF col_type = "TEXT" /\ ~probe_fails /\ len # None
                        THEN len[1] ELSE 0,
         max_value |-> IF col_type = "INTEGER" /\ ~probe_fails /\ val # None
                       THEN val ELSE WideZero]

\* lines 256-262 and 274: the clause of a column
ColumnClause(meta) ==
    [name |-> meta.name,
     clause |-> sqlite_to_mysql_type(meta.type, Some(meta.max_length), meta.nullable,
                                     meta.max_value, meta.is_primary)]

\* lines 308-315: whether the full-text index is written
WritesFulltext(metadata) ==
    /\ opt.fulltext
    /\ \E i \in 1..Len(metadata) : metadata[i].type = "TEXT"
    /\ ~(opt.mysql_version = "5.7" /\ opt.engine # "MyISAM")

\* lines 248-332: what the structure of a table writes
StructureStatements(item_name, cols, metadata, fk_list_) ==
    (IF opt.drop_table THEN <<[op |-> "DROP TABLE", name |-> item_name]>> ELSE <<>>)
    \o <<[op |-> "CREATE TABLE", name |-> item_name,
          columns |-> [i \in 1..Len(metadata) |-> ColumnClause(metadata[i])],
          primary_key |-> Filter([i \in 1..Len(cols) |-> cols[i].name],
                                 {cols[i].name : i \in {j \in 1..Len(cols) : cols[j].pk > 0}})]>>
    \o [k \in 1..Len(db.index_list[item_name]) |->
          [op |-> "CREATE INDEX", name |-> item_name,
           index |-> db.index_list[item_name][k]]]
    \o (IF WritesFulltext(metadata)
        THEN <<[op |-> "CREATE FULLTEXT INDEX", name |-> item_name]>> ELSE <<>>)
    \o [k \in 1..Len(fk_list_) |->
          [op |-> "ALTER TABLE", name |-> item_name, ref_table |-> fk_list_[k]]]

\* the test of lines 193, 202 and 248 always true: a mutant of InStructure
InStructureAlways == TRUE

\* lines 193, 202 and 248: export_mode in ("structure", "both")
InStructure == opt.export_mode \in {"structure", "both"}

\* line 334: export_mode in ("data", "both")
InData == opt.export_mode \in {"data", "both"}

(***************************************************************************)
(* create_sql_dump: the steps                                              *)
(*                                                                         *)
(* pc is "start" (line 131), "open" (143), "introspect" (153), "header"    *)
(* (176), "item" (184, the head of the item loop), "data" (334), "page"    *)
(* (349, the head of the paging loop), "flush" (405), "close" (429),       *)
(* "done" (returned) or "exited" (sys.exit was called).                    *)
(* Writes of white space alone are not recorded in out.                    *)
(***************************************************************************)
\* inside the with block of line 176, whose exit closes the output file
InWith == pc \in {"item", "data", "page", "flush"}

Item == sorted_items[idx]

Exit(code) ==
    /\ pc' = "exited"
    /\ status' = code
    /\ f_open' = (f_open /\ ~InWith)

\* lines 131-141: connect, and check that the database file exists
Connect ==
    /\ pc = "start"
    /\ \E outcome \in {"ok", "connect fails", "file missing"} :
         /\ conn_open' = (outcome # "connect fails")
         /\ IF outcome = "ok"
            THEN pc' = "open" /\ UNCHANGED <<status, f_open>>
            ELSE Exit(1)
    /\ UNCHANGED <<db, opt, env, ctrl_c_pressed, table_dependencies, sorted_tables,
                   sorted_items, warnings, out, idx, columns_info, column_metadata,
                   total_rows, offset, values_list, row_count, flush_i, fetches,
                   blob_files, call, ret>>

\* lines 143-151: open the output file
OpenOutput ==
    /\ pc = "open"
    /\ \E ok \in BOOLEAN :
         IF ok
         THEN pc' = "introspect" /\ f_open' = TRUE /\ UNCHANGED status
         ELSE Exit(1)
    /\ UNCHANGED <<db, opt, env, ctrl_c_pressed, conn_open, table_dependencies,
                   sorted_tables, sorted_items, warnings, out, idx, columns_info,
                   column_metadata, total_rows, offset, values_list, row_count,
                   flush_i, fetches, blob_files, call, ret>>

\* lines 153-174: read the catalog and the foreign keys, sort
Introspect ==
    /\ pc = "introspect"
    /\ LET tables == CatalogTables(db.items)
           deps == [t \in Range(tables) |-> db.fk_list[t]]
           r == topological_sort_tables(tables, deps)
       IN  /\ table_dependencies' = deps
           /\ sorted_tables' = r.sorted_tables
           /\ warnings' = warnings + r.warnings
           /\ sorted_items' = SortByRank(RankItems(db.items, r.sorted_tables), <<>>)
    /\ pc' = "header"
    /\ UNCHANGED <<db, opt, env, status, ctrl_c_pressed, conn_open, f_open, out, idx,
                   columns_info, column_metadata, total_rows, offset, values_list,
                   row_count, flush_i, fetches, blob_files, call, ret>>

\* lines 176-184: enter the with block, write the header, start the item loop
WriteHeader ==
    /\ pc = "header"
    /\ out' = out \o <<[op |-> "COMMENT", name |-> "header"],
                       [op |-> "SET FOREIGN_KEY_CHECKS = 0", name |-> ""],
                       [op |-> "START TRANSACTION", name |-> ""]>>
    /\ idx' = 1
    /\ pc' = "item"
    /\ UNCHANGED <<db, opt, env, status, ctrl_c_pressed, conn_open, f_open,
                   table_dependencies, sorted_tables, sorted_items, warnings,
                   columns_info, column_metadata, total_rows, offset, values_list,
                   row_count, flush_i, fetches, blob_files, call, ret>>

\* lines 191-198: a view
ExportView ==
    /\ pc = "item" /\ idx <= Len(sorted_items)
    /\ Item.sql = "create view"
    /\ out' = IF InStructure
              THEN out \o <<[op |-> "COMMENT", name |-> Item.name],
                            [op |-> "CREATE VIEW", name |-> Item.name]>>
              ELSE out
    /\ idx' = idx + 1
    /\ UNCHANGED <<db, opt, env, pc, status, ctrl_c_pressed, conn_open, f_open,
                   table_dependencies, sorted_tables, sorted_items, warnings,
                   columns_info, column_metadata, total_rows, offset, values_list,
                   row_count, flush_i, fetches, blob_files, call, ret>>

\* lines 200-210: a trigger
ExportTrigger ==
    /\ pc = "item" /\ idx <= Len(sorted_items)
    /\ Item.sql = "create trigger"
    /\ out' = IF InStructure
              THEN out \o <<[op |-> "COMMENT", name |-> Item.name],
                            [op |-> "COMMENT", name |-> Item.name],
                            [op |-> "CREATE TRIGGER", name |-> Item.name]>>
              ELSE out
    /\ idx' = idx + 1
    /\ UNCHANGED <<db, opt, env, pc, status, ctrl_c_pressed, conn_open, f_open,
                   table_dependencies, sorted_tables, sorted_items, warnings,
                   columns_info, column_metadata, total_rows, offset, values_list,
                   row_count, flush_i, fetches, blob_files, call, ret>>

\* lines 212-332: any other item is a table: its columns, their statistics and,
\* in the modes with structure, its statements
TableStructure ==
    /\ pc = "item" /\ idx <= Len(sorted_items)
    /\ Item.sql \notin {"create view", "create trigger"}
    /\ LET cols == db.table_info[Item.name]
           metadata == [i \in 1..Len(cols) |->
                          ColumnMetadata(cols[i], db.rows[Item.name], i, env.probe_fails)]
           fk_list_ == IF Item.name \in DOMAIN table_dependencies
                       THEN table_dependencies[Item.name] ELSE <<>>
       IN  /\ columns_info' = cols
           /\ column_metadata' = metadata
           /\ out' = IF InStructure
                     THEN out \o StructureStatements(Item.name, cols, metadata, fk_list_)
                     ELSE out
    /\ pc' = "data"
    /\ UNCHANGED <<db, opt, env, status, ctrl_c_pressed, conn_open, f_open,
                   table_dependencies, sorted_tables, sorted_items, warnings, idx,
                   total_rows, offset, values_list, row_count, flush_i, fetches,
                   blob_files, call, ret>>

\* lines 334-347: count the rows; an empty table is skipped
DataBegin ==
    /\ pc = "data"
    /\ IF InData /\ Len(db.rows[Item.name]) # 0
       THEN /\ total_rows' = Len(db.rows[Item.name])
            /\ offset' = 0
            /\ values_list' = <<>>
            /\ pc' = "page"
            /\ UNCHANGED idx
       ELSE /\ total_rows' = IF InData THEN 0 ELSE total_rows
            /\ idx' = idx + 1
            /\ pc' = "item"
            /\ UNCHANGED <<offset, values_list>>
    /\ UNCHANGED <<db, opt, env, status, ctrl_c_pressed, conn_open, f_open,
                   table_dependencies, sorted_tables, sorted_items, warnings, out,
                   columns_info, column_metadata, row_count, flush_i, fetches,
                   blob_files, call, ret>>

\* the most LIMIT/OFFSET queries of a run that the model follows: more than any run
\* whose pages hold rows makes, so only a loop that never advances is cut
MaxFetches == 150

\* lines 349-403: one more page: poll the flag, fetch the page, encode its rows
PageFetch ==
    /\ pc = "page"
    /\ offset < total_rows
    /\ Len(fetches) < MaxFetches
    /\ IF ctrl_c_pressed
       THEN /\ Exit(0)
            /\ UNCHANGED <<values_list, row_count, flush_i, fetches, blob_files>>
       ELSE LET page == SelectPage(db.rows[Item.name], opt.batch_size, offset)
                ctx == [item_name |-> Item.name, offset |-> offset, row_index |-> 0,
                        blob_dir |-> opt.blob_dir, max_blob_size |-> opt.max_blob_size,
                        blob_ok |-> env.blob_ok]
                e == EncodePage(page, columns_info, ctx, blob_files)
            IN  /\ values_list' = values_list \o e.values_list
                /\ blob_files' = e.files
                /\ row_count' = Len(page)
                /\ fetches' = Append(fetches, [table |-> Item.name,
                                               limit |-> opt.batch_size,
                                               offset |-> offset,
                                               count |-> Len(page)])
                /\ flush_i' = 0
                /\ pc' = "flush"
                /\ UNCHANGED <<status, f_open>>
    /\ UNCHANGED <<db, opt, env, ctrl_c_pressed, conn_open, table_dependencies,
                   sorted_tables, sorted_items, warnings, out, idx, columns_info,
                   column_metadata, total_rows, offset, call, ret>>

\* lines 406-412: write one INSERT statement of at most 100 rows
FlushChunk ==
    /\ pc = "flush"
    /\ flush_i < Len(values_list)
    /\ out' = Append(out, [op |-> "INSERT", name |-> Item.name,
                           rows |-> Chunk(values_list, flush_i)])
    /\ flush_i' = NextChunkStart(values_list, flush_i)
    /\ UNCHANGED <<db, opt, env, pc, status, ctrl_c_pressed, conn_open, f_open,
                   table_dependencies, sorted_tables, sorted_items, warnings, idx,
                   columns_info, column_metadata, total_rows, offset, values_list,
                   row_count, fetches, blob_files, call, ret>>

\* lines 413-416: the page is flushed: empty the list, advance the offset
PageEnd ==
    /\ pc = "flush"
    /\ flush_i >= Len(values_list)
    /\ values_list' = <<>>
    /\ offset' = offset + row_count
    /\ pc' = "page"
    /\ UNCHANGED <<db, opt, env, status, ctrl_c_pressed, conn_open, f_open,
                   table_dependencies, sorted_tables, sorted_items, warnings, out, idx,
                   columns_info, column_metadata, total_rows, row_count, flush_i,
                   fetches, blob_files, call, ret>>

\* lines 418-424: the paging loop is left, the next item follows
DataEnd ==
    /\ pc = "page"
    /\ ~(offset < total_rows)
    /\ idx' = idx + 1
    /\ pc' = "item"
    /\ UNCHANGED <<db, opt, env, status, ctrl_c_pressed, conn_open, f_open,
                   table_dependencies, sorted_tables, sorted_items, warnings, out,
                   columns_info, column_metadata, total_rows, offset, values_list,
                   row_count, flush_i, fetches, blob_files, call, ret>>

\* lines 426-427: after the last item, commit; the with block closes the file
Commit ==
    /\ pc = "item" /\ idx > Len(sorted_items)
    /\ out' = out \o <<[op |-> "COMMIT", name |-> ""],
                       [op |-> "SET FOREIGN_KEY_CHECKS = 1", name |-> ""]>>
    /\ f_open' = FALSE
    /\ pc' = "close"
    /\ UNCHANGED <<db, opt, env, status, ctrl_c_pressed, conn_open,
                   table_dependencies, sorted_tables, sorted_items, warnings, idx,
                   columns_info, column_metadata, total_rows, offset, values_list,
                   row_count, flush_i, fetches, blob_files, call, ret>>

\* lines 429-431: close the connection and return
Close ==
    /\ pc = "close"
    /\ conn_open' = FALSE
    /\ status' = 0
    /\ pc' = "done"
    /\ UNCHANGED <<db, opt, env, ctrl_c_pressed, f_open, table_dependencies,
                   sorted_tables, sorted_items, warnings, out, idx, columns_info,
                   column_metadata, total_rows, offset, values_list, row_count,
                   flush_i, fetches, blob_files, call, ret>>

\* lines 17-23: SIGINT, delivered between any two steps of the run: the handler
\* sets the flag and calls sys.exit(0), which unwinds create_sql_dump
signal_handler ==
    /\ pc \notin {"done", "exited", "call", "returned"}
    /\ ctrl_c_pressed' = TRUE
    /\ Exit(0)
    /\ UNCHANGED <<db, opt, env, conn_open, table_dependencies, sorted_tables,
                   sorted_items, warnings, out, idx, columns_info, column_metadata,
                   total_rows, offset, values_list, row_count, flush_i, fetches,
                   blob_files, call, ret>>

Next ==
    \/ Connect
    \/ OpenOutput
    \/ Introspect
    \/ WriteHeader
    \/ ExportView
    \/ ExportTrigger
    \/ TableStructure
    \/ DataBegin
    \/ PageFetch
    \/ FlushChunk
    \/ PageEnd
    \/ DataEnd
    \/ Commit
    \/ Close
    \/ signal_handler

(***************************************************************************)
(* The inputs                                                              *)
(***************************************************************************)
\* the most rows of foreign_key_list in a schema
MaxFks == 2

\* the most rows of a table of the small databases
MaxRows == 2

\* the names of the catalog, in catalog order, and a table the catalog does not hold
Names == <<"A", "B", "C">>

Missing == "X"

SqlKinds == {"create table", "create view", "create trigger", "create virtual table"}

\* the lists of n foreign-key lists with at most budget rows in all
RECURSIVE FkLists(_, _, _)
FkLists(n, targets, budget) ==
    IF n = 0 THEN {<<>>}
    ELSE UNION {{<<first>> \o rest : rest \in FkLists(n - 1, targets, budget - Len(first))} :
                first \in SeqsUpTo(targets, budget)}

IdColumn == [name |-> "id", type |-> "INTEGER", notnull |-> TRUE, pk |-> 1]

TextColumn == [name |-> "txt", type |-> "TEXT", notnull |-> FALSE, pk |-> 0]

BlobColumn == [name |-> "payload", type |-> "BLOB", notnull |-> FALSE, pk |-> 0]

\* a database over Names: kinds[i] is the kind of Names[i], fks[i] its foreign keys,
\* every table has the columns cols, the index list indexes and the rows rows
Database(kinds, fks, cols, indexes, rows) ==
    [items |-> [i \in 1..Len(Names) |-> [name |-> Names[i], sql |-> kinds[i]]],
     fk_list |-> [n \in Range(Names) |-> fks[CHOOSE i \in 1..Len(Names) : Names[i] = n]],
     table_info |-> [n \in Range(Names) |-> cols],
     index_list |-> [n \in Range(Names) |-> indexes],
     rows |-> [n \in Range(Names) |-> rows]]

\* the schemas: every kind of item, every foreign-key map within the bound;
\* only a table has foreign keys
Schemas(cols, indexes, rowsets) ==
    {Database(kinds, fks, cols, indexes, rows) :
        kinds \in [1..Len(Names) -> SqlKinds],
        fks \in FkLists(Len(Names), Range(Names) \cup {Missing}, MaxFks),
        rows \in rowsets}

WellFormed(d) ==
    \A i \in 1..Len(d.items) :
        d.items[i].sql # "create table" => d.fk_list[d.items[i].name] = <<>>

Options(modes, batch_sizes, blob_dirs, fulltexts) ==
    [export_mode : modes, batch_size : batch_sizes, drop_table : {TRUE},
     blob_dir : blob_dirs, max_blob_size : {1}, fulltext : fulltexts,
     mysql_version : {"8.0"}, engine : {"InnoDB"}]

\* the state when create_sql_dump is entered
InitRun(dbs, opts, envs) ==
    /\ db \in dbs
    /\ opt \in opts
    /\ env \in envs
    /\ pc = "start"
    /\ status = -1
    /\ ctrl_c_pressed = FALSE
    /\ conn_open = FALSE
    /\ f_open = FALSE
    /\ table_dependencies = <<>>
    /\ sorted_tables = <<>>
    /\ sorted_items = <<>>
    /\ warnings = 0
    /\ out = <<>>
    /\ idx = 0
    /\ columns_info = <<>>
    /\ column_metadata = <<>>
    /\ total_rows = 0
    /\ offset = 0
    /\ values_list = <<>>
    /\ row_count = 0
    /\ flush_i = 0
    /\ fetches = <<>>
    /\ blob_files = <<>>
    /\ call = <<>>
    /\ ret = <<>>

\* the rows 1..n of a table with the columns id, txt, payload
SmallRow(k) == <<IntValue(k), StrValue(<<"a", "'">>), BytesValue(<<k>>)>>

SmallRows(n) == [k \in 1..n |-> SmallRow(k)]

Init ==
    InitRun({d \in Schemas(<<IdColumn, TextColumn, BlobColumn>>,
                           <<[name |-> "ix", unique |-> FALSE]>>,
                           {SmallRows(n) : n \in {0, MaxRows}}) : WellFormed(d)},
            Options({"structure", "data", "both"}, {1}, {FALSE}, {TRUE}),
            [probe_fails : {FALSE}, blob_ok : {TRUE}])

Spec == Init /\ [][Next]_vars

(***************************************************************************)
(* The pure functions, called on their own                                 *)
(*                                                                         *)
(* call holds the arguments and pc is "call"; the step applies the         *)
(* function, ret holds what it returns and pc is "returned".               *)
(***************************************************************************)
InitCall(calls) ==
    /\ call \in calls
    /\ ret = <<>>
    /\ pc = "call"
    /\ db = <<>> /\ opt = <<>> /\ env = <<>>
    /\ status = -1
    /\ ctrl_c_pressed = FALSE
    /\ conn_open = FALSE
    /\ f_open = FALSE
    /\ table_dependencies = <<>>
    /\ sorted_tables = <<>>
    /\ sorted_items = <<>>
    /\ warnings = 0
    /\ out = <<>>
    /\ idx = 0
    /\ columns_info = <<>>
    /\ column_metadata = <<>>
    /\ total_rows = 0
    /\ offset = 0
    /\ values_list = <<>>
    /\ row_count = 0
    /\ flush_i = 0
    /\ fetches = <<>>
    /\ blob_files = <<>>

CallSort ==
    /\ pc = "call"
    /\ call.fn = "topological_sort_tables"
    /\ ret' = topological_sort_tables(call.tables, call.foreign_keys)
    /\ pc' = "returned"
    /\ UNCHANGED <<db, opt, env, status, ctrl_c_pressed, conn_open, f_open,
                   table_dependencies, sorted_tables, sorted_items, warnings, out, idx,
                   columns_info, column_metadata, total_rows, offset, values_list,
                   row_count, flush_i, fetches, blob_files, call>>

CallType ==
    /\ pc = "call"
    /\ call.fn = "sqlite_to_mysql_type"
    /\ ret' = sqlite_to_mysql_type(call.sqlite_type, call.max_length, call.nullable,
                                   call.max_value, call.is_primary)
    /\ pc' = "returned"
    /\ UNCHANGED <<db, opt, env, status, ctrl_c_pressed, conn_open, f_open,
                   table_dependencies, sorted_tables, sorted_items, warnings, out, idx,
                   columns_info, column_metadata, total_rows, offset, values_list,
                   row_count, flush_i, fetches, blob_files, call>>

\* the tables of the calls of the sort, and the most foreign keys of a call
SortTables == <<"A", "B", "C", "D">>

MaxSortFks == 3

SortCalls ==
    {[fn |-> "topological_sort_tables",
      tables |-> SortTables,
      foreign_keys |-> [t \in Range(SortTables) |->
                          fks[CHOOSE i \in 1..Len(SortTables) : SortTables[i] = t]]] :
        fks \in FkLists(Len(SortTables), Range(SortTables) \cup {Missing}, MaxSortFks)}

InitSort == InitCall(SortCalls)

SpecSort == InitSort /\ [][CallSort]_vars

\* how far around each threshold the statistics of the calls of the type mapper go
Slack == 2

\* limbs plus a small integer
WideAdd(x, d) ==
    LET c == x[3] + d
        cc == c % Limb
        b == x[2] + (c - cc) \div Limb
        bb == b % Limb
    IN  <<x[1] + (b - bb) \div Limb, bb, cc>>

Around(n) == {m \in (n - Slack)..(n + Slack) : m >= 0}

WideAround(x) == {WideAdd(x, d) : d \in (0 - Slack)..Slack}

TypeNames ==
    {"TEXT", "INTEGER", "REAL", "BLOB", "NULL", "DATETIME", "DATE", "BOOLEAN", "NUMERIC",
     "DECIMAL", "VARCHAR(20)", "integer", "text"}

TypeCalls ==
    [fn : {"sqlite_to_mysql_type"},
     sqlite_type : TypeNames,
     max_length : {None} \cup {Some(n) : n \in Around(0) \cup Around(255) \cup Around(65535)},
     nullable : BOOLEAN,
     max_value : {None} \cup WideAround(WideZero) \cup WideAround(INT32_MAX)
                     \cup WideAround(INT32_MIN) \cup WideAround(INT64_MAX)
                     \cup WideAround(INT64_MIN),
     is_primary : BOOLEAN]

InitType == InitCall(TypeCalls)

SpecType == InitType /\ [][CallType]_vars

(***************************************************************************)
(* The claims about topological_sort_tables, under SpecSort                *)
(***************************************************************************)
Returned(fn) == pc = "returned" /\ call.fn = fn

\* table t has a foreign key that references u
References(fk, t, u) == \E i \in 1..Len(fk[t]) : fk[t][i] = u

\* the tables reached from the tables of S along at most k foreign keys
RECURSIVE ReachedFrom(_, _, _)
ReachedFrom(fk, S, k) ==
    IF k = 0 THEN S
    ELSE ReachedFrom(fk, S \cup {u \in DOMAIN fk : \E t \in S : References(fk, t, u)}, k - 1)

\* t depends on u, directly or through other tables
DependsOn(fk, t, u) ==
    \E v \in DOMAIN fk : References(fk, t, v) /\ u \in ReachedFrom(fk, {v}, Cardinality(DOMAIN fk))

\* x occurs in s, and every occurrence of x is before every occurrence of y
Before(s, x, y) ==
    /\ \E i \in 1..Len(s) : s[i] = x
    /\ \A i, j \in 1..Len(s) : s[i] = x /\ s[j] = y => i < j

\* C1: in the list returned by topological_sort_tables every table T comes after
\* every table U that T references through a foreign key that is on no cycle
\* (U is not T and U does not depend on T), whatever the other tables do.
C1_AfterEveryNonCyclicReference ==
    Returned("topological_sort_tables") =>
        \A t, u \in Range(call.tables) :
            (/\ References(call.foreign_keys, t, u)
             /\ u # t
             /\ ~DependsOn(call.foreign_keys, u, t))
            => Before(ret.sorted_tables, u, t)

\* C2: the list returned by topological_sort_tables holds every table once and
\* nothing else, whatever the foreign keys (cycles, self-references, references to
\* tables that are not there), and two tables that reference each other make it
\* log one warning.
C2_PermutationAndOneWarning ==
    Returned("topological_sort_tables") =>
        /\ Len(ret.sorted_tables) = Len(call.tables)
        /\ Range(ret.sorted_tables) = Range(call.tables)
        /\ (\E a, b \in Range(call.tables) :
                /\ a # b
                /\ References(call.foreign_keys, a, b)
                /\ References(call.foreign_keys, b, a))
           => ret.warnings = 1

\* a call with two tables that reference each other, a self-reference and a
\* reference to a table that is not there has returned
C2_Witness ==
    /\ Returned("topological_sort_tables")
    /\ References(call.foreign_keys, "A", "B")
    /\ References(call.foreign_keys, "B", "A")
    /\ References(call.foreign_keys, "C", Missing)
    /\ ret.warnings = 1
    /\ Len(ret.sorted_tables) = 4

(***************************************************************************)
(* The claims about sqlite_to_mysql_type, under SpecType                   *)
(***************************************************************************)
\* C9: sqlite_to_mysql_type picks the width at the documented thresholds. A TEXT
\* column of observed length L is VARCHAR(L) up to 255, TEXT from 256 to 65535 and
\* LONGTEXT from 65536; an INTEGER column that is no primary key, of observed value
\* V, is INT from -2147483648 to 2147483647 and BIGINT from 2147483648 to
\* 9223372036854775807 (limbs <<0, 127, 16777215>>, <<0, 128, 0>> and
\* <<32767, 16777215, 16777215>>).
C9_WidthThresholds ==
    Returned("sqlite_to_mysql_type") =>
        /\ (call.sqlite_type \in {"TEXT", "text"} /\ call.max_length # None) =>
              LET L == call.max_length[1]
              IN  /\ L <= 255 => ret.base = "VARCHAR" /\ ret.width = <<L>>
                  /\ (256 <= L /\ L <= 65535) => ret.base = "TEXT" /\ ret.width = None
                  /\ L >= 65536 => ret.base = "LONGTEXT" /\ ret.width = None
        /\ (call.sqlite_type \in {"INTEGER", "integer"} /\ ~call.is_primary
                /\ call.max_value # None) =>
              LET V == call.max_value
              IN  /\ (WideLe(<<-1, 16777088, 0>>, V) /\ WideLe(V, <<0, 127, 16777215>>))
                        => ret.base = "INT" /\ ~ret.auto
                  /\ (WideLe(<<0, 128, 0>>, V) /\ WideLe(V, <<32767, 16777215, 16777215>>))
                        => ret.base = "BIGINT" /\ ~ret.auto

\* the call for a TEXT column of observed length 256 has returned TEXT
C9_Witness ==
    /\ Returned("sqlite_to_mysql_type")
    /\ call.sqlite_type = "TEXT"
    /\ call.max_length = <<256>>
    /\ ret.base = "TEXT"
    /\ ret.nullability = "DEFAULT NULL"

(***************************************************************************)
(* The claims about the statements written, under Spec                     *)
(***************************************************************************)
\* the positions of out that hold a statement op of the item name
Written(op, name) == {j \in 1..Len(out) : out[j].op = op /\ out[j].name = name}

\* the tables of the catalog the foreign keys are read from
CatalogTableSet ==
    {db.items[i].name : i \in {k \in 1..Len(db.items) : db.items[k].sql = "create table"}}

\* no table depends on itself and every referenced table is a table of the catalog
AcyclicAndPresent ==
    /\ \A t \in CatalogTableSet : ~DependsOn(db.fk_list, t, t)
    /\ \A t \in CatalogTableSet : Range(db.fk_list[t]) \subseteq CatalogTableSet

StructureOps ==
    {"CREATE TABLE", "CREATE VIEW", "CREATE TRIGGER", "CREATE INDEX",
     "CREATE FULLTEXT INDEX", "DROP TABLE", "ALTER TABLE"}

\* C7: a run in mode "structure" writes no INSERT, and a run in mode "data" writes
\* no CREATE (table, view, trigger, index, full-text index), no DROP and no ALTER
\* TABLE, whatever the schema and the rows.
C7_ModesAreDisjoint ==
    /\ opt.export_mode = "structure" => \A j \in 1..Len(out) : out[j].op # "INSERT"
    /\ opt.export_mode = "data" => \A j \in 1..Len(out) : out[j].op \notin StructureOps

\* a run in mode "data" over a view, a trigger and a table with rows, an index and
\* a foreign key has completed, and wrote the rows
C7_Witness ==
    /\ pc = "done"
    /\ opt.export_mode = "data"
    /\ \E i \in 1..Len(db.items) : db.items[i].sql = "create view"
    /\ \E i \in 1..Len(db.items) : db.items[i].sql = "create trigger"
    /\ \E t \in CatalogTableSet :
          /\ db.fk_list[t] # <<>>
          /\ db.index_list[t] # <<>>
          /\ Written("INSERT", t) # {}

\* C8: the clause of every INTEGER primary-key column of a CREATE TABLE statement
\* is BIGINT with AUTO_INCREMENT, whatever the observed maximum of the column.
C8_PrimaryKeyIsBigint ==
    \A j \in 1..Len(out) : out[j].op = "CREATE TABLE" =>
        \A i \in 1..Len(out[j].columns) :
            LET col == db.table_info[out[j].name][i]
            IN  (col.type \in {"INTEGER", "integer"} /\ col.pk > 0) =>
                    /\ out[j].columns[i].clause.base = "BIGINT"
                    /\ out[j].columns[i].clause.auto

(***************************************************************************)
(* The export of the rows of one table, page by page, under SpecPage       *)
(***************************************************************************)
\* the most rows of the table of the paged databases
MaxPageRows == 130

BatchSizes == {1, 50, 100, 120, 1000}

IdRows(n) == [k \in 1..n |-> <<IntValue(k)>>]

\* table A with n rows, view B, trigger C
PagedDatabase(cols, rows) ==
    Database(<<"create table", "create view", "create trigger">>, <<<<>>, <<>>, <<>>>>,
             cols, <<>>, rows)

InitPage ==
    InitRun({PagedDatabase(<<IdColumn>>, IdRows(n)) : n \in 0..MaxPageRows},
            Options({"data", "both"}, BatchSizes, {FALSE}, {FALSE}),
            [probe_fails : {FALSE}, blob_ok : {TRUE}])

SpecPage == InitPage /\ [][Next]_vars

Ceil(a, b) == (a + b - 1) \div b

\* the queries that fetched pages of table t, in order
FetchesOf(t) == Filter(fetches, {f \in Range(fetches) : f.table = t})

\* the rows of the INSERT statements of table t
RowsWritten(t) == SumSeq([j \in 1..Len(out) |->
                            IF out[j].op = "INSERT" /\ out[j].name = t
                            THEN Len(out[j].rows) ELSE 0])

\* the tables whose rows a run exports: the run has paging options B >= 1
ExportedTables ==
    IF opt.export_mode \in {"data", "both"} /\ opt.batch_size >= 1
    THEN {t \in CatalogTableSet : Len(db.rows[t]) > 0}
    ELSE {}

\* C4 as claimed: a completed run has written ceil(R/100) INSERT statements for a
\* table of R > 0 rows, whatever the page size B >= 1.
C4_InsertsAreCeilOfRows ==
    pc = "done" =>
        \A t \in ExportedTables :
            Cardinality(Written("INSERT", t)) = Ceil(Len(db.rows[t]), 100)

\* C4 as amended: a completed run has written, for a table of R > 0 rows and a page
\* size B >= 1, ceil(B/100) INSERT statements for each of the floor(R/B) full pages
\* and ceil((R mod B)/100) for the last one: the list is flushed page by page.
C4_InsertsArePerPage ==
    pc = "done" =>
        \A t \in ExportedTables :
            LET R == Len(db.rows[t])
                B == opt.batch_size
            IN  Cardinality(Written("INSERT", t)) =
                    (R \div B) * Ceil(B, 100) + Ceil(R % B, 100)

\* a run of page size 120 over 130 rows has completed: two INSERT statements for
\* the first page, of 100 and of 20 rows, and one for the second
C4_Witness ==
    /\ pc = "done"
    /\ opt.batch_size = 120
    /\ Len(db.rows["A"]) = 130
    /\ Cardinality(Written("INSERT", "A")) = 3
    /\ \E j \in Written("INSERT", "A") : Len(out[j].rows) = 20

\* C5: for a table of R > 0 rows and a page size B >= 1 the export runs ceil(R/B)
\* LIMIT B OFFSET queries, the k-th at offset (k-1)*B, and then leaves the loop.
C5_FetchesAreCeilOfRows ==
    \A t \in ExportedTables :
        LET R == Len(db.rows[t])
            B == opt.batch_size
            F == FetchesOf(t)
        IN  /\ \A k \in 1..Len(F) : F[k].offset = (k - 1) * B /\ F[k].limit = B
            /\ Len(F) <= Ceil(R, B)
            /\ pc = "done" => Len(F) = Ceil(R, B)
            /\ (pc = "page" /\ Item.name = t /\ Len(F) = Ceil(R, B))
                   => ~(offset < total_rows)

\* a run of page size 50 over 130 rows has completed, the last page short
C5_Witness ==
    /\ pc = "done"
    /\ opt.batch_size = 50
    /\ Len(db.rows["A"]) = 130
    /\ Len(FetchesOf("A")) = 3
    /\ FetchesOf("A")[3].offset = 100
    /\ FetchesOf("A")[3].count = 30

\* C10: a run that SIGINT ends has status zero and has written, of every page it
\* fetched, all the INSERT statements or none. (A run that has exited takes no
\* step: what it has written is the output.)
C10_CancelAtBatchBoundary ==
    (pc = "exited" /\ ctrl_c_pressed) =>
        /\ status = 0
        /\ \A t \in CatalogTableSet :
              LET F == FetchesOf(t)
                  fetched == SumSeq([k \in 1..Len(F) |-> F[k].count])
              IN  \/ RowsWritten(t) = fetched
                  \/ Len(F) > 0 /\ RowsWritten(t) = fetched - F[Len(F)].count

(***************************************************************************)
(* The export of binary values, under SpecBlob                             *)
(***************************************************************************)
\* the most rows of the table of the databases with binary values
MaxBlobRows == 3

\* the binary values: NULL, one byte (inline: max_blob_size is 1), two bytes
BlobValues == {NullValue, BytesValue(<<1>>), BytesValue(<<1, 2>>), BytesValue(<<3, 4>>)}

BlobRows == {[k \in 1..n |-> <<IntValue(k), payloads[k]>>] :
                n \in 0..MaxBlobRows, payloads \in [1..MaxBlobRows -> BlobValues]}

InitBlob ==
    InitRun({PagedDatabase(<<IdColumn, BlobColumn>>, rows) : rows \in BlobRows},
            Options({"data", "both"}, 1..MaxBlobRows, BOOLEAN, {FALSE}),
            [probe_fails : {FALSE}, blob_ok : BOOLEAN])

SpecBlob == InitBlob /\ [][Next]_vars

\* the value tuples of the INSERT statements of table t, in the order written
RECURSIVE TuplesFrom(_, _)
TuplesFrom(t, j) ==
    IF j > Len(out) THEN <<>>
    ELSE (IF out[j].op = "INSERT" /\ out[j].name = t THEN out[j].rows ELSE <<>>)
             \o TuplesFrom(t, j + 1)

\* C6: with a blob directory, when the run has completed every LOAD_FILE placeholder
\* written for a row and a column names a file that holds the bytes of that row's
\* value, whatever the number of rows and the page size.
C6_BlobFileHoldsTheValue ==
    (pc = "done" /\ opt.blob_dir) =>
        \A t \in ExportedTables :
            LET tuples == TuplesFrom(t, 1)
            IN  \A k \in 1..Len(tuples) : \A i \in 1..Len(tuples[k]) :
                    tuples[k][i].lit = "LOAD_FILE" =>
                        /\ tuples[k][i].path \in DOMAIN blob_files
                        /\ blob_files[tuples[k][i].path] = db.rows[t][k][i].b

(***************************************************************************)
(* The exit paths of create_sql_dump, under SpecIO                         *)
(*                                                                         *)
(* The connection of line 132 is closed at line 430 and nowhere else; the  *)
(* output file of lines 145-147 is closed by the with block of line 176,   *)
(* which is entered after the introspection of lines 153-174. The file of  *)
(* a blob is opened and closed inside the with block of line 371, within   *)
(* the step that encodes the page.                                         *)
(***************************************************************************)
\* what the step at pc writes to the output file, in order
StepWrites ==
    IF pc = "header"
    THEN <<[op |-> "COMMENT", name |-> "header"],
           [op |-> "SET FOREIGN_KEY_CHECKS = 0", name |-> ""],
           [op |-> "START TRANSACTION", name |-> ""]>>
    ELSE IF pc = "item" /\ idx > Len(sorted_items)
    THEN <<[op |-> "COMMIT", name |-> ""],
           [op |-> "SET FOREIGN_KEY_CHECKS = 1", name |-> ""]>>
    ELSE IF pc = "item" /\ InStructure
    THEN IF Item.sql = "create view"
         THEN <<[op |-> "COMMENT", name |-> Item.name],
                [op |-> "CREATE VIEW", name |-> Item.name]>>
         ELSE IF Item.sql = "create trigger"
         THEN <<[op |-> "COMMENT", name |-> Item.name],
                [op |-> "COMMENT", name |-> Item.name],
                [op |-> "CREATE TRIGGER", name |-> Item.name]>>
         ELSE LET cols == db.table_info[Item.name]
                  metadata == [i \in 1..Len(cols) |->
                                 ColumnMetadata(cols[i], db.rows[Item.name], i,
                                                env.probe_fails)]
                  fk_list_ == IF Item.name \in DOMAIN table_dependencies
                              THEN table_dependencies[Item.name] ELSE <<>>
              IN  StructureStatements(Item.name, cols, metadata, fk_list_)
    ELSE IF pc = "flush" /\ flush_i < Len(values_list)
    THEN <<[op |-> "INSERT", name |-> Item.name, rows |-> Chunk(values_list, flush_i)]>>
    ELSE <<>>

\* a write of the step at pc raises OSError after some of the step's writes were
\* made: the with block of line 176 closes the output file, nothing catches the
\* exception, and the interpreter ends with status 1
WriteFails ==
    /\ StepWrites # <<>>
    /\ \E k \in 0..(Len(StepWrites) - 1) : out' = out \o SubSeq(StepWrites, 1, k)
    /\ f_open' = FALSE
    /\ status' = 1
    /\ pc' = "exited"
    /\ UNCHANGED <<db, opt, env, ctrl_c_pressed, conn_open, table_dependencies,
                   sorted_tables, sorted_items, warnings, idx, columns_info,
                   column_metadata, total_rows, offset, values_list, row_count,
                   flush_i, fetches, blob_files, call, ret>>

NextIO == Next \/ WriteFails

InitIO ==
    InitRun({d \in Schemas(<<IdColumn, TextColumn, BlobColumn>>,
                           <<[name |-> "ix", unique |-> FALSE]>>,
                           {SmallRows(MaxRows)}) : WellFormed(d)},
            Options({"both"}, {1}, {FALSE}, {TRUE}),
            [probe_fails : {FALSE}, blob_ok : {TRUE}])

SpecIO == InitIO /\ [][NextIO]_vars

\* C11: when the run has ended, by returning, by sys.exit after SIGINT, after the
\* output file could not be opened, or by a failed write, the connection and the
\* output file it had opened are closed.
C11_ReleasedOnEveryExit ==
    pc \in {"done", "exited"} => ~conn_open /\ ~f_open

(***************************************************************************)
(* The script as a whole, under Spec                                       *)
(***************************************************************************)
EnvelopeOps ==
    {"SET FOREIGN_KEY_CHECKS = 0", "START TRANSACTION", "COMMIT",
     "SET FOREIGN_KEY_CHECKS = 1"}

TableOps ==
    {"DROP TABLE", "CREATE TABLE", "CREATE INDEX", "CREATE FULLTEXT INDEX",
     "ALTER TABLE", "INSERT"}

\* the header, the two opening statements, statements of objects, the two closing
\* statements: each of the four once, nothing before or after them
EnvelopeInOrder ==
    /\ Len(out) >= 5
    /\ out[1] = [op |-> "COMMENT", name |-> "header"]
    /\ out[2].op = "SET FOREIGN_KEY_CHECKS = 0"
    /\ out[3].op = "START TRANSACTION"
    /\ out[Len(out) - 1].op = "COMMIT"
    /\ out[Len(out)].op = "SET FOREIGN_KEY_CHECKS = 1"
    /\ \A j \in 4..(Len(out) - 2) : out[j].op \notin EnvelopeOps

\* the statements of the objects follow the order of sorted_items
InResolvedOrder ==
    \A i, j \in 4..(Len(out) - 2) :
        i < j => \E a, b \in 1..Len(sorted_items) :
                    /\ a <= b
                    /\ sorted_items[a].name = out[i].name
                    /\ sorted_items[b].name = out[j].name

\* no statement of a table follows a statement of a view or a trigger
TablesBeforeOthers ==
    \A i, j \in 1..Len(out) :
        (out[i].op \in {"CREATE VIEW", "CREATE TRIGGER"} /\ out[j].op \in TableOps)
            => j < i

\* C12: the script of a run that has completed, in any mode, is the header comment,
\* SET FOREIGN_KEY_CHECKS = 0, START TRANSACTION, the statements of the objects in
\* the resolved order with every table before every view and trigger, COMMIT, and
\* SET FOREIGN_KEY_CHECKS = 1, each of the four statements once.
C12_EnvelopeAroundTablesThenOthers ==
    pc = "done" => EnvelopeInOrder /\ InResolvedOrder /\ TablesBeforeOthers

(***************************************************************************)
(* The rows written, under SpecRows: pages and flush chunks over rows with *)
(* NULL, inline, externalized and degraded binary values                   *)
(***************************************************************************)
\* row k of the table: its key, and a payload that is NULL, one byte (written
\* inline) or two bytes (more than max_blob_size)
MixedRow(k) ==
    <<IntValue(k),
      IF k % 3 = 0 THEN NullValue
      ELSE IF k % 3 = 1 THEN BytesValue(<<k>>) ELSE BytesValue(<<1, 2>>)>>

MixedRows(n) == [k \in 1..n |-> MixedRow(k)]

InitRows ==
    InitRun({PagedDatabase(<<IdColumn, BlobColumn>>, MixedRows(n)) : n \in 0..MaxPageRows},
            Options({"data"}, BatchSizes, BOOLEAN, {FALSE}),
            [probe_fails : {FALSE}, blob_ok : BOOLEAN])

SpecRows == InitRows /\ [][Next]_vars

\* the literal lit stands for the source value v, or is the NULL the value degraded to
StandsFor(lit, v) ==
    \/ lit.lit = "NULL" /\ v.kind \in {"null", "bytes"}
    \/ lit.lit = "NUM" /\ v.kind = "int" /\ lit.v = v.v
    \/ lit.lit = "STR" /\ v.kind = "str"
    \/ lit.lit = "UNHEX" /\ v.kind = "bytes" /\ lit.hex = Hex(v.b)
    \/ lit.lit = "LOAD_FILE" /\ v.kind = "bytes"

\* C13: when the run has completed, the value tuples of the INSERT statements of a
\* table of R rows, exported with a page size B >= 1, are R tuples, the k-th written
\* for the k-th source row, each with one literal per column of the row, a NULL in
\* the place of a value that degraded.
C13_EveryRowOnceInOrder ==
    pc = "done" =>
        \A t \in ExportedTables :
            LET tuples == TuplesFrom(t, 1)
                rows == db.rows[t]
            IN  /\ Len(tuples) = Len(rows)
                /\ \A k \in 1..Len(tuples) :
                      /\ Len(tuples[k]) = Len(db.table_info[t])
                      /\ Len(tuples[k]) = Len(rows[k])
                      /\ \A i \in 1..Len(tuples[k]) : StandsFor(tuples[k][i], rows[k][i])

\* a run of page size 120 over 130 rows has completed, the blob files could not be
\* written: 130 tuples in three INSERT statements, and the two bytes of row 2 are NULL
C13_Witness ==
    /\ pc = "done"
    /\ opt.batch_size = 120
    /\ opt.blob_dir /\ ~env.blob_ok
    /\ Len(db.rows["A"]) = 130
    /\ Cardinality(Written("INSERT", "A")) = 3
    /\ Len(TuplesFrom("A", 1)) = 130
    /\ db.rows["A"][2][2].kind = "bytes"
    /\ TuplesFrom("A", 1)[2] = <<[lit |-> "NUM", v |-> Wide(2)], [lit |-> "NULL"]>>

(***************************************************************************)
(* The paging loop for any batch size, under SpecBatch                     *)
(*                                                                         *)
(* --batch-size is parsed with type=int (line 452) and passed on unchecked *)
(* (line 524): zero and negative values reach the LIMIT of line 354.       *)
(***************************************************************************)
IntegerBatchSizes == {-1, 0, 1, 2}

InitBatch ==
    InitRun({PagedDatabase(<<IdColumn>>, IdRows(n)) : n \in 0..MaxRows},
            Options({"data", "both"}, IntegerBatchSizes, {FALSE}, {FALSE}),
            [probe_fails : {FALSE}, blob_ok : {TRUE}])

SpecBatch == InitBatch /\ [][Next]_vars

\* C14: whatever the integer given as the batch size, every iteration of the paging
\* loop of a non-empty table leaves the offset greater than it found it, so that the
\* loop ends when the offset reaches the row count and the run goes on to COMMIT.
C14_OffsetStrictlyIncreases ==
    [][(pc = "flush" /\ pc' = "page") => offset' > offset]_vars

====
